---- MODULE Spec2Model ----
(***************************************************************************)
(* Model of experiments/synthesizer-img/train.py: the cosine noise         *)
(* schedule (cosine_alphas_bar), its reversal (alphas), the forward        *)
(* corruption of a minibatch (alphas[rand_index], noise_input) and the     *)
(* epoch loop with checkpoint save / reload.                               *)
(*                                                                         *)
(* Real numbers are fixed-point integers: the value v stands for           *)
(* v / SCALE.  Tensors are sequences (index i of the code is i + 1 here).  *)
(* A sample of a minibatch is one pixel.                                   *)
(***************************************************************************)
EXTENDS Integers, Sequences, FiniteSets, TLC

\* ------------------------------------------------------------------ bounds
\* largest params.timesteps the schedule functions are applied to
MaxTimesteps == 5
\* largest params.timesteps of a run of the script
MaxRunTimesteps == 2
\* largest params.train_epoch of a run
MaxEpochs == 3
\* largest minibatch (images.shape[0])
MaxBs == 2
\* len(train_dataloader) and len(test_dataloader)
TrainBatches == 2
TestBatches == 1
\* how many times the script is started
MaxLaunches == 2

\* ------------------------------------------------------- fixed-point reals
SCALE == 10 ^ 4
\* torch.pi at SCALE
PI_FP == 31416
\* the default s = 0.008 of cosine_alphas_bar at SCALE
S_DEFAULT == 80

\* values of s the schedule is built with: 0.008, 0.5 (valid), 0, -0.008 (invalid)
SValues == {S_DEFAULT, SCALE \div 2, 0, -S_DEFAULT}
\* values of params.timesteps the schedule is built with, invalid ones included
TimestepValues == (-2) .. MaxTimesteps
\* pixel values of a normalized image and of a standard-normal sample
PixValues == {-SCALE, 0, SCALE}
NoiseValues == {-SCALE, SCALE}

VARIABLES
  pc,              \* position of the script / of the function being applied
  timesteps,       \* params.timesteps
  s,               \* the s argument of cosine_alphas_bar
  sched,           \* what cosine_alphas_bar returned: [status, vals]
  alphas,          \* the reversed schedule (line 102)
  bs,              \* images.shape[0] of the current minibatch
  rand_index,      \* the timestep indices of the current minibatch
  images,          \* the clean samples of the current minibatch
  random_sample,   \* the noise of the current minibatch
  alpha_batch,     \* alphas[rand_index]
  corrupted,       \* the lookup and mix of lines 126-128: [status, noisy]
  do_reload,       \* params.do_reload
  train_epoch,     \* params.train_epoch
  resume_epoch,    \* line 85 / 94
  epoch,           \* the epoch loop's index
  num_iter,        \* minibatches done in the current pass
  training,        \* u_net.training: TRUE after train(), FALSE after eval()
  optimizer_steps, \* optimizer.step() calls of this run
  checkpoint_file, \* diffusion_checkpoint.pth: <<>> (absent) or <<epoch>>
  log,             \* what this run did, in order
  launches         \* how many times the script has been started

vars == <<pc, timesteps, s, sched, alphas, bs, rand_index, images, random_sample,
          alpha_batch, corrupted, do_reload, train_epoch, resume_epoch, epoch,
          num_iter, training, optimizer_steps, checkpoint_file, log, launches>>

runVars == <<do_reload, train_epoch, resume_epoch, epoch, num_iter, training,
             optimizer_steps, checkpoint_file, log, launches>>

\* ---------------------------------------------------------------- helpers
\* torch.linspace(start, end, n) at SCALE: n evenly spaced points, both ends
\* included; a single point is start.
Linspace(start, end, n) ==
  [i \in 1 .. n |->
     IF n = 1 THEN start * SCALE
     ELSE start * SCALE + ((i - 1) * (end - start) * SCALE) \div (n - 1)]

\* torch.cos at SCALE: the Taylor polynomial of degree 10 in Horner form,
\* exact to the last digit of SCALE for |theta| <= pi/2.
Cos(theta) ==
  LET t2 == (theta * theta) \div SCALE
      h4 == SCALE - t2 \div 90
      h3 == SCALE - (t2 * h4) \div (56 * SCALE)
      h2 == SCALE - (t2 * h3) \div (30 * SCALE)
      h1 == SCALE - (t2 * h2) \div (12 * SCALE)
  IN  SCALE - (t2 * h1) \div (2 * SCALE)

\* one entry of line 54: cos(((x / steps) + s) / (1 + s) * pi * 0.5) ** 2
CosSquared(x, steps, sv) ==
  LET u == (((x \div steps) + sv) * SCALE) \div (SCALE + sv)
      theta == ((u * PI_FP) \div SCALE) \div 2
      c == Cos(theta)
  IN  (c * c) \div SCALE

\* alphas_bar / alphas_bar[0] (line 55)
Normalize(ab) == [i \in 1 .. Len(ab) |-> (ab[i] * SCALE) \div ab[1]]

TruncateKeepExtra(ab, n) == ab

\* alphas_bar[:timesteps] (line 56)
Truncate(ab, n) == SubSeq(ab, 1, n)

\* cosine_alphas_bar(timesteps, s): negative steps make torch.linspace raise,
\* zero steps make alphas_bar[0] raise, anything else returns a tensor.
cosine_alphas_bar(n, sv) ==
  LET steps == n + 1 IN
  IF steps < 0 THEN [status |-> "RuntimeError", vals |-> <<>>]
  ELSE IF steps = 0 THEN [status |-> "IndexError", vals |-> <<>>]
  ELSE LET x == Linspace(0, steps, steps)
           ab == [i \in 1 .. steps |-> CosSquared(x[i], steps, sv)]
       IN  [status |-> "ok", vals |-> Truncate(Normalize(ab), n)]

FlipForgotten(v) == v

\* torch.flip(v, (0,)) (line 102)
Flip(v) == [i \in 1 .. Len(v) |-> v[Len(v) + 1 - i]]

RECURSIVE ISqrt(_, _, _)
\* the largest r in lo .. hi with r * r <= n
ISqrt(n, lo, hi) ==
  IF lo >= hi THEN lo
  ELSE LET mid == (lo + hi + 1) \div 2
       IN  IF mid * mid <= n THEN ISqrt(n, mid, hi) ELSE ISqrt(n, lo, mid - 1)

\* tensor.sqrt() at SCALE, of a value in [0, 1]
Sqrt(a) == ISqrt(a * SCALE, 0, SCALE)

SignalWeightLinear(a) == a

\* alpha_batch.sqrt() (line 128)
SignalWeight(a) == Sqrt(a)

\* (1 - alpha_batch).sqrt() (line 128)
NoiseWeight(a) == Sqrt(SCALE - a)

\* alphas[rand_index] (lines 126, 156): indexing a tensor of length n with an
\* index tensor accepts -n .. n-1, a negative index counting from the end,
\* and raises for anything else.
IndexInBounds(v, t) == -Len(v) <= t /\ t < Len(v)
Lookup(v, t) == v[(t % Len(v)) + 1]

\* lines 126-128 for one minibatch: the lookup, then the mix
Corrupt(v, idx, x, noise) ==
  IF \E j \in 1 .. Len(idx) : ~IndexInBounds(v, idx[j])
  THEN [status |-> "IndexError", noisy |-> <<>>]
  ELSE [status |-> "ok",
        noisy |-> [j \in 1 .. Len(idx) |->
                     (SignalWeight(Lookup(v, idx[j])) * x[j]) \div SCALE
                     + (NoiseWeight(Lookup(v, idx[j])) * noise[j]) \div SCALE]]

SeqsOf(S, n) == [1 .. n -> S]

\* ============================================================ the functions
\* cosine_alphas_bar, the flip and the corruption applied to drawn arguments.
NoRun ==
  /\ do_reload = FALSE /\ train_epoch = 0 /\ resume_epoch = -1 /\ epoch = 0
  /\ num_iter = 0 /\ training = TRUE /\ optimizer_steps = 0
  /\ checkpoint_file = <<>> /\ log = <<>> /\ launches = 0

CoreInit ==
  /\ pc = "args"
  /\ timesteps \in TimestepValues
  /\ s \in SValues
  /\ sched = [status |-> "none", vals |-> <<>>]
  /\ alphas = <<>>
  /\ bs = 0 /\ rand_index = <<>> /\ images = <<>> /\ random_sample = <<>>
  /\ alpha_batch = <<>>
  /\ corrupted = [status |-> "none", noisy |-> <<>>]
  /\ NoRun

\* lines 51-56
CoreBuild ==
  /\ pc = "args"
  /\ sched' = cosine_alphas_bar(timesteps, s)
  /\ pc' = IF sched'.status = "ok" THEN "built" ELSE "raised"
  /\ UNCHANGED <<timesteps, s, alphas, bs, rand_index, images, random_sample,
                 alpha_batch, corrupted>>
  /\ UNCHANGED runVars

\* line 102
CoreFlip ==
  /\ pc = "built"
  /\ alphas' = Flip(sched.vals)
  /\ pc' = "flipped"
  /\ UNCHANGED <<timesteps, s, sched, bs, rand_index, images, random_sample,
                 alpha_batch, corrupted>>
  /\ UNCHANGED runVars

\* lines 126-128 with one sample and any index, in range or not
CoreCorrupt ==
  /\ pc = "flipped"
  /\ \E t \in (-2) .. (MaxTimesteps + 1), x \in PixValues, n \in NoiseValues :
       /\ bs' = 1
       /\ rand_index' = <<t>>
       /\ images' = <<x>>
       /\ random_sample' = <<n>>
       /\ corrupted' = Corrupt(alphas, <<t>>, <<x>>, <<n>>)
       /\ alpha_batch' = IF IndexInBounds(alphas, t)
                         THEN <<Lookup(alphas, t)>> ELSE <<>>
  /\ pc' = "corrupted"
  /\ UNCHANGED <<timesteps, s, sched, alphas>>
  /\ UNCHANGED runVars

CoreNext == CoreBuild \/ CoreFlip \/ CoreCorrupt

SpecCore == CoreInit /\ [][CoreNext]_vars

\* ================================================================ the script
\* torch.randint(high, (bs,)): each entry is drawn from 0 .. high-1
RandIntInclusive(high) == 0 .. high

RandInt(high) == 0 .. (high - 1)

RunsEpochStrict(e, r) == e > r

\* the conditional of line 110
RunsEpoch(e, r) == e >= r

Init ==
  /\ pc = "launch"
  /\ timesteps \in 1 .. MaxRunTimesteps
  /\ s = S_DEFAULT
  /\ sched = [status |-> "none", vals |-> <<>>]
  /\ alphas = <<>>
  /\ bs = 0 /\ rand_index = <<>> /\ images = <<>> /\ random_sample = <<>>
  /\ alpha_batch = <<>>
  /\ corrupted = [status |-> "none", noisy |-> <<>>]
  /\ NoRun

\* lines 85-108: the script is started with params.do_reload = dr and
\* params.train_epoch = te. torch.load raises when there is no checkpoint file.
Launch ==
  /\ pc = "launch"
  /\ launches < MaxLaunches
  /\ \E dr \in BOOLEAN, te \in 0 .. MaxEpochs :
       /\ do_reload' = dr
       /\ train_epoch' = te
       /\ launches' = launches + 1
       /\ IF dr /\ checkpoint_file = <<>>
          THEN /\ pc' = "crashed"
               /\ UNCHANGED <<resume_epoch, sched, alphas, training>>
          ELSE /\ resume_epoch' = IF dr THEN checkpoint_file[1] ELSE -1
               /\ sched' = cosine_alphas_bar(timesteps, S_DEFAULT)
               /\ IF sched'.status = "ok"
                  THEN /\ alphas' = Flip(sched'.vals)
                       /\ training' = TRUE
                       /\ pc' = "loop"
                  ELSE /\ pc' = "crashed"
                       /\ UNCHANGED <<alphas, training>>
  /\ UNCHANGED <<timesteps, s, bs, rand_index, images, random_sample,
                 alpha_batch, corrupted, epoch, num_iter, optimizer_steps,
                 checkpoint_file, log>>

\* line 109 with the range exhausted: the loop ends
EpochLoopEnd ==
  /\ pc = "loop"
  /\ epoch >= train_epoch
  /\ pc' = "done"
  /\ UNCHANGED <<timesteps, s, sched, alphas, bs, rand_index, images,
                 random_sample, alpha_batch, corrupted>>
  /\ UNCHANGED runVars

\* lines 109-113: an epoch that is run
EpochBegin ==
  /\ pc = "loop"
  /\ epoch < train_epoch
  /\ RunsEpoch(epoch, resume_epoch)
  /\ num_iter' = 0
  /\ pc' = "train"
  /\ UNCHANGED <<timesteps, s, sched, alphas, bs, rand_index, images,
                 random_sample, alpha_batch, corrupted, do_reload, train_epoch,
                 resume_epoch, epoch, training, optimizer_steps,
                 checkpoint_file, log, launches>>

\* lines 109-110, 172-173: an epoch that is skipped
EpochSkip ==
  /\ pc = "loop"
  /\ epoch < train_epoch
  /\ ~RunsEpoch(epoch, resume_epoch)
  /\ log' = Append(log, <<"skip", epoch, training>>)
  /\ epoch' = epoch + 1
  /\ UNCHANGED <<pc, timesteps, s, sched, alphas, bs, rand_index, images,
                 random_sample, alpha_batch, corrupted, do_reload, train_epoch,
                 resume_epoch, num_iter, training, optimizer_steps,
                 checkpoint_file, launches>>

\* lines 120-126 and 153-156: the minibatch's size, its timestep indices and
\* the lookup; an index out of bounds raises at the lookup
DrawAndLookup ==
  \E b \in 1 .. MaxBs : \E idx \in SeqsOf(RandInt(timesteps), b) :
    /\ bs' = b
    /\ rand_index' = idx
    /\ IF \A j \in 1 .. b : IndexInBounds(alphas, idx[j])
       THEN /\ alpha_batch' = [j \in 1 .. b |-> Lookup(alphas, idx[j])]
            /\ pc' = pc
       ELSE /\ alpha_batch' = alpha_batch
            /\ pc' = "crashed"

\* lines 115-142: one training iteration
TrainStep ==
  /\ pc = "train"
  /\ num_iter < TrainBatches
  /\ DrawAndLookup
  /\ IF pc' = pc
     THEN /\ optimizer_steps' = optimizer_steps + 1
          /\ log' = Append(log, <<"step", epoch, training>>)
          /\ num_iter' = num_iter + 1
     ELSE UNCHANGED <<optimizer_steps, log, num_iter>>
  /\ UNCHANGED <<timesteps, s, sched, alphas, images, random_sample, corrupted,
                 do_reload, train_epoch, resume_epoch, epoch, training,
                 checkpoint_file, launches>>

LrStepRebuildsSchedule ==
  /\ pc = "train"
  /\ num_iter = TrainBatches
  /\ log' = Append(log, <<"lr", epoch, training>>)
  /\ training' = FALSE
  /\ num_iter' = 0
  /\ pc' = "val"
  /\ alphas' = sched.vals
  /\ UNCHANGED <<timesteps, s, sched, bs, rand_index, images,
                 random_sample, alpha_batch, corrupted, do_reload, train_epoch,
                 resume_epoch, epoch, optimizer_steps, checkpoint_file,
                 launches>>

\* lines 144-147: the training pass is over
LrStep ==
  /\ pc = "train"
  /\ num_iter = TrainBatches
  /\ log' = Append(log, <<"lr", epoch, training>>)
  /\ training' = FALSE
  /\ num_iter' = 0
  /\ pc' = "val"
  /\ UNCHANGED <<timesteps, s, sched, alphas, bs, rand_index, images,
                 random_sample, alpha_batch, corrupted, do_reload, train_epoch,
                 resume_epoch, epoch, optimizer_steps, checkpoint_file,
                 launches>>

\* lines 149-162: one validation iteration
ValStep ==
  /\ pc = "val"
  /\ num_iter < TestBatches
  /\ DrawAndLookup
  /\ IF pc' = pc
     THEN /\ log' = Append(log, <<"vstep", epoch, training>>)
          /\ num_iter' = num_iter + 1
     ELSE UNCHANGED <<log, num_iter>>
  /\ UNCHANGED <<timesteps, s, sched, alphas, images, random_sample, corrupted,
                 do_reload, train_epoch, resume_epoch, epoch, training,
                 optimizer_steps, checkpoint_file, launches>>

\* lines 164-171: the checkpoint of the epoch, and on to the next one
SaveCheckpoint ==
  /\ pc = "val"
  /\ num_iter = TestBatches
  /\ checkpoint_file' = <<epoch>>
  /\ log' = Append(log, <<"save", epoch, training>>)
  /\ epoch' = epoch + 1
  /\ pc' = "loop"
  /\ UNCHANGED <<timesteps, s, sched, alphas, bs, rand_index, images,
                 random_sample, alpha_batch, corrupted, do_reload, train_epoch,
                 resume_epoch, num_iter, training, optimizer_steps, launches>>

\* the process is killed while it runs
Interrupt ==
  /\ pc \in {"loop", "train", "val"}
  /\ pc' = "killed"
  /\ UNCHANGED <<timesteps, s, sched, alphas, bs, rand_index, images,
                 random_sample, alpha_batch, corrupted>>
  /\ UNCHANGED runVars

\* the process is gone; only the checkpoint file is left for the next start
Exit ==
  /\ pc \in {"done", "crashed", "killed"}
  /\ launches < MaxLaunches
  /\ pc' = "launch"
  /\ sched' = [status |-> "none", vals |-> <<>>]
  /\ alphas' = <<>>
  /\ bs' = 0 /\ rand_index' = <<>> /\ alpha_batch' = <<>>
  /\ do_reload' = FALSE /\ train_epoch' = 0 /\ resume_epoch' = -1
  /\ epoch' = 0 /\ num_iter' = 0 /\ training' = TRUE /\ optimizer_steps' = 0
  /\ log' = <<>>
  /\ UNCHANGED <<timesteps, s, images, random_sample, corrupted,
                 checkpoint_file, launches>>

Next ==
  \/ Launch \/ EpochLoopEnd \/ EpochBegin \/ EpochSkip \/ TrainStep \/ LrStep
  \/ ValStep \/ SaveCheckpoint \/ Interrupt \/ Exit

Spec == Init /\ [][Next]_vars

\* ================================================================== claims
ValidArgs == timesteps > 0 /\ s > 0
Running == pc \in {"loop", "train", "val", "done", "killed"}
Max(a, b) == IF a >= b THEN a ELSE b
Min(a, b) == IF a <= b THEN a ELSE b

\* C1: for timesteps > 0 and s > 0, cosine_alphas_bar returns (it does not
\* raise) exactly timesteps values, the first of them is exactly 1.0, and
\* every one of them lies in (0, 1].
C1_ScheduleShape ==
  (pc # "args" /\ ValidArgs) =>
    /\ sched.status = "ok"
    /\ Len(sched.vals) = timesteps
    /\ sched.vals[1] = SCALE
    /\ \A i \in 1 .. Len(sched.vals) :
         0 < sched.vals[i] /\ sched.vals[i] <= SCALE

C1_Witness ==
  /\ pc = "built" /\ timesteps >= 3 /\ s = S_DEFAULT
  /\ Len(sched.vals) = timesteps
  /\ sched.vals[timesteps] > 0 /\ sched.vals[timesteps] < SCALE \div 2

\* C2: for timesteps > 0 and s > 0, the raw schedule is non-increasing and
\* the reversed schedule alphas is non-decreasing, its first entry the
\* minimum of the schedule and its last entry 1.0.
C2_Monotone ==
  (pc \in {"flipped", "corrupted"} /\ ValidArgs) =>
    /\ \A i \in 1 .. (Len(sched.vals) - 1) : sched.vals[i] >= sched.vals[i + 1]
    /\ Len(alphas) = timesteps
    /\ \A i \in 1 .. (Len(alphas) - 1) : alphas[i] <= alphas[i + 1]
    /\ \A i \in 1 .. Len(sched.vals) : alphas[1] <= sched.vals[i]
    /\ alphas[timesteps] = SCALE

C2_Witness ==
  /\ pc = "flipped" /\ timesteps >= 3 /\ s > 0
  /\ alphas[1] < alphas[2] /\ alphas[2] < alphas[timesteps]
  /\ sched.vals[1] > sched.vals[2]

\* C3: a timestep index outside [0, timesteps) is rejected with an index
\* error at the lookup and no noisy sample is produced; in particular
\* t = -1 is not served as the entry at index timesteps-1.
C3_OutOfRangeRejected ==
  (pc = "corrupted" /\ ValidArgs
     /\ (rand_index[1] < 0 \/ rand_index[1] >= timesteps)) =>
    /\ corrupted.status = "IndexError"
    /\ corrupted.noisy = <<>>

\* C4: cosine_alphas_bar called with timesteps <= 0 or with s <= 0 fails
\* and returns no schedule, not even an empty one.
C4_InvalidConfigurationRejected ==
  (pc \in {"built", "raised", "flipped", "corrupted"}
     /\ (timesteps <= 0 \/ s <= 0)) =>
    /\ sched.status \in {"RuntimeError", "IndexError"}
    /\ sched.vals = <<>>

\* C5: corrupting x at the cleanest index t = timesteps-1 of the reversed
\* schedule returns x exactly (retained fraction 1, signal weight 1, noise
\* weight 0), and for every t in [0, timesteps) the squares of the two
\* mixing weights sum to 1 (here: up to the rounding of the last digit of
\* the two square roots, 3 / SCALE).
C5_CorruptionIdentity ==
  (pc = "corrupted" /\ ValidArgs
     /\ 0 <= rand_index[1] /\ rand_index[1] < timesteps) =>
    LET a == alpha_batch[1]
        w1 == SignalWeight(a)
        w2 == NoiseWeight(a)
        sq == w1 * w1 + w2 * w2
    IN  /\ corrupted.status = "ok"
        /\ a = alphas[rand_index[1] + 1]
        /\ sq <= SCALE * SCALE + 3 * SCALE
        /\ sq >= SCALE * SCALE - 3 * SCALE
        /\ (rand_index[1] = timesteps - 1) =>
             /\ a = SCALE /\ w1 = SCALE /\ w2 = 0
             /\ corrupted.noisy = images

C5_Witness ==
  /\ pc = "corrupted" /\ timesteps >= 2 /\ s = S_DEFAULT
  /\ rand_index[1] = timesteps - 1
  /\ images = <<-SCALE>> /\ random_sample = <<SCALE>>
  /\ corrupted.noisy = <<-SCALE>>

\* C6: in every training and validation iteration there is one timestep
\* index per sample of the minibatch, each an integer in [0, timesteps), so
\* the lookup alphas[rand_index] is in range and never raises.
C6_IndicesInRange ==
  (rand_index # <<>>) =>
    /\ pc # "crashed"
    /\ Len(rand_index) = bs
    /\ Len(alpha_batch) = bs
    /\ \A j \in 1 .. bs :
         /\ 0 <= rand_index[j] /\ rand_index[j] < timesteps
         /\ alpha_batch[j] = alphas[rand_index[j] + 1]

C6_Witness ==
  /\ pc = "val" /\ num_iter = TestBatches /\ epoch = 1
  /\ bs = MaxBs /\ rand_index[1] = 0 /\ rand_index[bs] = timesteps - 1
  /\ timesteps >= 2

\* C7: alphas is computed once, when the script starts, and no step of the
\* run (training or validation iteration, learning-rate step, checkpoint
\* write, skipped epoch) changes it afterwards.
C7_AlphasImmutable ==
  [][/\ (pc # "launch" /\ pc' # "launch") => alphas' = alphas
     /\ (pc = "launch" /\ pc' = "loop") => Len(alphas') = timesteps]_vars

C7_Witness ==
  /\ pc = "done" /\ alphas # <<>> /\ Len(alphas) >= 2
  /\ \E i \in DOMAIN log : log[i][1] = "skip"
  /\ \E i \in DOMAIN log : log[i][1] = "save"

\* what one epoch that is run does, in order
EpochLog(e) ==
  [i \in 1 .. (TrainBatches + TestBatches + 2) |->
     IF i <= TrainBatches THEN <<"step", e>>
     ELSE IF i = TrainBatches + 1 THEN <<"lr", e>>
     ELSE IF i <= TrainBatches + 1 + TestBatches THEN <<"vstep", e>>
     ELSE <<"save", e>>]

RECURSIVE LoopFrom(_, _)
\* what `for epoch in range(first, n)` without the conditional does
LoopFrom(first, n) ==
  IF first >= n THEN <<>> ELSE EpochLog(first) \o LoopFrom(first + 1, n)

Ops(l) == [i \in 1 .. Len(l) |-> <<l[i][1], l[i][2]>>]
IsSkip(ev) == ev[1] = "skip"
IsWork(ev) == ev[1] # "skip"
IsPrefix(a, b) == Len(a) <= Len(b) /\ a = SubSeq(b, 1, Len(a))

\* C8: the conditional skip is equivalent to starting the loop at
\* max(resume_epoch, 0): every index below resume_epoch is visited and does
\* nothing but skip, and the epochs from max(resume_epoch, 0) to
\* train_epoch-1 are trained, stepped, validated and checkpointed exactly
\* once each, in increasing order.
C8_SkipIsLoopFrom ==
  Running =>
    LET first == Max(resume_epoch, 0)
        work == SelectSeq(Ops(log), IsWork)
        skips == SelectSeq(Ops(log), IsSkip)
    IN  /\ IsPrefix(work, LoopFrom(first, train_epoch))
        /\ IsPrefix(skips, [i \in 1 .. Min(first, train_epoch) |-> <<"skip", i - 1>>])
        /\ (work # <<>>) => Len(skips) = Min(first, train_epoch)
        /\ (pc = "done") =>
             /\ work = LoopFrom(first, train_epoch)
             /\ Len(skips) = Min(first, train_epoch)

C8_Witness ==
  /\ pc = "done" /\ resume_epoch >= 1 /\ train_epoch >= resume_epoch + 2
  /\ Len(log) = resume_epoch
               + (train_epoch - resume_epoch) * (TrainBatches + TestBatches + 2)

\* C9: a checkpoint is written only after the epoch's training pass and
\* validation pass, and records that epoch; a run that reloads it never
\* trains the recorded epoch (or an earlier one) again: the first epoch it
\* trains is the one after the recorded one.
C9_NoRetrainAfterReload ==
  Running =>
    /\ \A i \in DOMAIN log :
         (log[i][1] = "save") =>
           /\ i >= TrainBatches + TestBatches + 2
           /\ SubSeq(Ops(log), i - (TrainBatches + TestBatches + 1), i)
                = EpochLog(log[i][2])
    /\ do_reload =>
         \A i \in DOMAIN log :
           (log[i][1] = "step") => log[i][2] > resume_epoch

\* C10: every training iteration runs with the network in training mode and
\* every validation iteration with the network in evaluation mode, in the
\* first epoch that is run and in every later one; only training iterations
\* perform an optimizer step.
C10_ModeMatchesPhase ==
  /\ \A i \in DOMAIN log :
       /\ (log[i][1] = "step") => (log[i][3] = TRUE)
       /\ (log[i][1] = "vstep") => (log[i][3] = FALSE)
  /\ optimizer_steps = Len(SelectSeq(Ops(log), LAMBDA ev : ev[1] = "step"))

====
